---- MODULE Spec2Model ----
(***************************************************************************)
(* vec2dic: expansion of a seed set of polar terms over word embeddings.   *)
(* The model follows src/src/vec2dic.cpp: the two loaders read_vectors()   *)
(* and read_seed_set(), the projection and dispatch in main(), and         *)
(* output_terms().  Text is kept as sequences of one-character strings so  *)
(* that trimming, lower-casing, scanning and strcmp() are computed as the  *)
(* code computes them.                                                     *)
(***************************************************************************)
EXTENDS Integers, Sequences, FiniteSets, TLC

(***************************************************************************)
(* Bounds of the input files.                                              *)
(***************************************************************************)
MaxVecLines == 3
MaxSeedLines == 3
MainMaxVecLines == 3
MainMaxSeedLines == 3

(***************************************************************************)
(* Characters and <cctype>.                                                *)
(***************************************************************************)
Byte ==
  ("\t" :> 9) @@ (" " :> 32) @@ ("0" :> 48) @@ ("1" :> 49) @@ ("2" :> 50) @@
  ("3" :> 51) @@ ("A" :> 65) @@ ("B" :> 66) @@ ("a" :> 97) @@ ("b" :> 98) @@
  ("c" :> 99) @@ ("d" :> 100) @@ ("e" :> 101) @@ ("f" :> 102) @@
  ("g" :> 103) @@ ("i" :> 105) @@ ("l" :> 108) @@ ("n" :> 110) @@
  ("o" :> 111) @@ ("p" :> 112) @@ ("r" :> 114) @@ ("s" :> 115) @@
  ("t" :> 116) @@ ("u" :> 117) @@ ("v" :> 118)

\* the terminator that operator[] yields at index size()
NUL == "NUL"

isspace(c) == c \in {" ", "\t"}

isdigit(c) == c \in {"0", "1", "2", "3"}

tolower(c) ==
  IF c \in DOMAIN Byte /\ Byte[c] >= 65 /\ Byte[c] <= 90
    THEN CHOOSE d \in DOMAIN Byte : Byte[d] = Byte[c] + 32
    ELSE c

\* size_t arithmetic wraps; the modulus is narrowed from 2^64, no line of
\* the model comes near either value
SizeModulus == 65536

npos == SizeModulus - 1

Inc(p) == (p + 1) % SizeModulus

Min(a, b) == IF a < b THEN a ELSE b

\* s[p] of a std::string, p <= size()
At(s, p) == IF p < Len(s) THEN s[p + 1] ELSE NUL

\* s.substr(pos, n) and the range of s.compare(pos, n, ...), pos <= size()
Substr(s, pos, n) == SubSeq(s, pos + 1, Min(Len(s), pos + n))

RECURSIVE FindFrom(_, _, _)
FindFrom(s, ch, p) ==
  IF p >= Len(s) THEN npos
  ELSE IF s[p + 1] = ch THEN p
  ELSE FindFrom(s, ch, p + 1)

find_first_of(s, ch) == FindFrom(s, ch, 0)

RECURSIVE ltrim(_)
ltrim(s) == IF s # <<>> /\ isspace(Head(s)) THEN ltrim(Tail(s)) ELSE s

RECURSIVE rtrim(_)
rtrim(s) ==
  IF s # <<>> /\ isspace(s[Len(s)]) THEN rtrim(SubSeq(s, 1, Len(s) - 1)) ELSE s

normalize(s) ==
  LET t == ltrim(rtrim(s))
  IN  [i \in 1..Len(t) |-> tolower(t[i])]

\* strcmp(): sign of the first differing byte, the terminator being 0
ByteAt(s, p) == IF p < Len(s) THEN Byte[s[p + 1]] ELSE 0

RECURSIVE StrCmpFrom(_, _, _)
StrCmpFrom(a, b, p) ==
  IF ByteAt(a, p) # ByteAt(b, p) THEN ByteAt(a, p) - ByteAt(b, p)
  ELSE IF ByteAt(a, p) = 0 THEN 0
  ELSE StrCmpFrom(a, b, p + 1)

strcmp(a, b) == StrCmpFrom(a, b, 0)

(***************************************************************************)
(* Associative containers.                                                 *)
(***************************************************************************)
EmptyMap == [k \in {} |-> 0]

\* m[k] = v
assign(m, k, v) == [x \in DOMAIN m \cup {k} |-> IF x = k THEN v ELSE m[x]]

\* a faulty emplace: the insertion replaces the value of a present key
EmplaceOverwrite(m, k, v) == assign(m, k, v)

\* unordered_map::emplace(): no effect when the key is present
emplace(m, k, v) == IF k \in DOMAIN m THEN m ELSE m @@ (k :> v)

(***************************************************************************)
(* Polarity classes and their names (vec2dic.cpp:101-106).                 *)
(***************************************************************************)
positive == <<"p", "o", "s", "i", "t", "i", "v", "e">>

negative == <<"n", "e", "g", "a", "t", "i", "v", "e">>

neutral == <<"n", "e", "u", "t", "r", "a", "l">>

Polarity == {"POSITIVE", "NEGATIVE", "NEUTRAL"}

\* the switch of output_terms()
PolarityName(p) ==
  CASE p = "POSITIVE" -> positive
    [] p = "NEGATIVE" -> negative
    [] p = "NEUTRAL" -> neutral

(***************************************************************************)
(* Reads past the start of a string's buffer.  iline[npos] is undefined:   *)
(* the scan `while (p > 0 && isspace(iline[p])) --p` started at npos reads *)
(* the bytes that lie before the buffer; the value is the number of blank  *)
(* bytes it meets there before a non-blank one stops it.                   *)
(***************************************************************************)
OobBlanks == {0, 1}

\* while (p > 0 && std::isspace(s[p])) {--p;}  with p <= size()
RECURSIVE ScanBackIn(_, _)
ScanBackIn(s, p) ==
  IF p > 0 /\ isspace(At(s, p)) THEN ScanBackIn(s, p - 1) ELSE p

\* the same loop from any start, npos included
ScanBack(s, p, oob) == IF p = npos THEN npos - oob ELSE ScanBackIn(s, p)

\* the character the loop stopped on, for the test that follows it; a
\* position before the buffer holds the non-blank byte that stopped the loop
StoppedOnBlank(s, p) == p <= Len(s) /\ isspace(At(s, p))

(***************************************************************************)
(* sscanf().                                                               *)
(***************************************************************************)
RECURSIVE SkipSpace(_, _)
SkipSpace(s, p) ==
  IF p < Len(s) /\ isspace(s[p + 1]) THEN SkipSpace(s, p + 1) ELSE p

RECURSIVE DigitsEnd(_, _)
DigitsEnd(s, p) ==
  IF p < Len(s) /\ isdigit(s[p + 1]) THEN DigitsEnd(s, p + 1) ELSE p

RECURSIVE DigitsValue(_, _, _, _)
DigitsValue(s, p, q, acc) ==
  IF p >= q THEN acc
  ELSE DigitsValue(s, p + 1, q, acc * 10 + (Byte[s[p + 1]] - 48))

\* one numeric conversion at p: leading blanks are skipped, then a number is
\* read; [ok, value, next]
ScanNumber(s, p) ==
  LET b == SkipSpace(s, p)
      e == DigitsEnd(s, b)
  IN  IF e > b
        THEN [ok |-> TRUE, value |-> DigitsValue(s, b, e, 0), next |-> e]
        ELSE [ok |-> FALSE, value |-> 0, next |-> b]

\* sscanf(s, "%u %u", &ncolumns, &mrows): the number of items assigned, or
\* EOF (-1) when the input ends before the first conversion
ScanHeader(s) ==
  LET a == ScanNumber(s, 0)
      b == ScanNumber(s, a.next)
  IN  IF ~a.ok
        THEN [n |-> (IF SkipSpace(s, 0) >= Len(s) THEN 0 - 1 ELSE 0),
              ncolumns |-> 0, mrows |-> 0]
      ELSE IF ~b.ok
        THEN [n |-> 1, ncolumns |-> a.value, mrows |-> 0]
      ELSE [n |-> 2, ncolumns |-> a.value, mrows |-> b.value]

\* for (irow = 0; irow < mrows && sscanf(cline, " %f%n", ...) == 1; ++irow):
\* the values stored, in order
RECURSIVE ScanFloats(_, _, _)
ScanFloats(s, p, mrows) ==
  IF mrows = 0 THEN <<>>
  ELSE LET r == ScanNumber(s, p)
       IN  IF r.ok THEN <<r.value>> \o ScanFloats(s, r.next, mrows - 1)
           ELSE <<>>

(***************************************************************************)
(* One line of the embedding file (vec2dic.cpp:315-334).                   *)
(* [status, word, values]                                                  *)
(***************************************************************************)
ParseVectorLine(iline, mrows, oob) ==
  LET first    == find_first_of(iline, " ")
      stop     == ScanBack(iline, first, oob)
      space_pos == Inc(stop)
      word     == Substr(iline, 0, space_pos)
      \* cline = &iline.c_str()[space_pos]; a position before the buffer is
      \* followed by blank bytes only, up to the first character of the line
      cline    == IF space_pos > Len(iline) THEN 0 ELSE space_pos
      vals     == ScanFloats(iline, cline, mrows)
  IN  IF stop = 0 /\ StoppedOnBlank(iline, stop)
        THEN [status |-> "missing_word", word |-> <<>>, values |-> <<>>]
      ELSE IF Len(vals) # mrows
        THEN [status |-> "short_vector", word |-> word, values |-> vals]
      ELSE [status |-> "ok", word |-> word, values |-> vals]

(***************************************************************************)
(* One line of the seed file (vec2dic.cpp:392-421).                        *)
(* [status, word, pol]                                                     *)
(***************************************************************************)
\* while (iline[++tab_pos] && std::isspace(iline[tab_pos])) {}
RECURSIVE SkipBlanksFrom(_, _)
SkipBlanksFrom(s, p) ==
  IF At(s, p) # NUL /\ isspace(At(s, p)) THEN SkipBlanksFrom(s, Inc(p)) ELSE p

\* iline.compare(pos, lit.length(), lit) == 0
ComparesEqual(s, pos, lit) == Substr(s, pos, Len(lit)) = lit

ParseSeedLine(raw, oob) ==
  LET iline   == normalize(raw)
      first   == find_first_of(iline, "\t")
      tab_pos == SkipBlanksFrom(iline, Inc(first))
      stop    == ScanBack(iline, first, oob)
      word    == Substr(iline, 0, Inc(stop))
      none    == [status |-> "missing_polarity", word |-> <<>>, pol |-> "NEUTRAL"]
  IN  IF tab_pos = npos \/ At(iline, tab_pos) = NUL
        THEN none
      ELSE IF ~(\/ ComparesEqual(iline, tab_pos, positive)
                \/ ComparesEqual(iline, tab_pos, negative)
                \/ ComparesEqual(iline, tab_pos, neutral))
        THEN [none EXCEPT !.status = "unrecognized_class"]
      ELSE IF stop = 0 /\ StoppedOnBlank(iline, stop)
        THEN [none EXCEPT !.status = "missing_word"]
      ELSE [status |-> "ok", word |-> word,
            pol |-> IF ComparesEqual(iline, tab_pos, positive) THEN "POSITIVE"
                    ELSE IF ComparesEqual(iline, tab_pos, negative) THEN "NEGATIVE"
                    ELSE "NEUTRAL"]

(***************************************************************************)
(* Input files.  A file is [exists, lines, broken]: `lines` are the lines  *)
(* std::getline() yields in turn; after the last line the next getline()   *)
(* fails, on end-of-file, or on a read error when `broken`.                *)
(***************************************************************************)
Str_a == <<"a">>

Str_b == <<"b">>

Str_c == <<"c">>

Str_d == <<"d">>

TAB == <<"\t">>

SP == <<" ">>

\* headers: "2 1", "3 1", "2 0", "abc def"
Hdr21 == <<"2", " ", "1">>

Hdr31 == <<"3", " ", "1">>

Hdr20 == <<"2", " ", "0">>

HdrBad == <<"a", "b", "c", " ", "d", "e", "f">>

Headers == {Hdr21, Hdr31, Hdr20, HdrBad}

\* vector lines: "a 1", "b 2", "c 3", "a" (no blank), " 1" (no word)
VL_a == Str_a \o SP \o <<"1">>

VL_b == Str_b \o SP \o <<"2">>

VL_c == Str_c \o SP \o <<"3">>

VecLines == {VL_a, VL_b, Str_a, SP \o <<"1">>}

MainVecLines == {VL_a, VL_b, VL_c}

\* seed lines: "a\tpositive", "a\tnegative", " A \t neutral ", "b\tnegative",
\* "d\tneutral", "positive", "\tnegative", "b", "a\tpos", " ", ""
SL_a_pos == Str_a \o TAB \o positive

SL_a_neg == Str_a \o TAB \o negative

SL_A_neu == SP \o <<"A">> \o SP \o TAB \o SP \o neutral \o SP

SL_b_neg == Str_b \o TAB \o negative

SL_d_neu == Str_d \o TAB \o neutral

SL_tab_neg == TAB \o negative

SL_a_pos_cut == Str_a \o TAB \o <<"p", "o", "s">>

SeedLines ==
  {SL_a_pos, SL_a_neg, SL_A_neu, positive, SL_tab_neg, Str_b, SL_a_pos_cut, SP, <<>>}

MainSeedLines == {SL_a_pos, SL_b_neg, SL_d_neu}

RECURSIVE SeqsUpTo(_, _)
SeqsUpTo(S, n) ==
  IF n = 0 THEN {<<>>}
  ELSE LET shorter == SeqsUpTo(S, n - 1)
       IN  shorter \cup {Append(q, e) : q \in shorter, e \in S}

File(ls, brk) == [exists |-> TRUE, lines |-> ls, broken |-> brk]

NoFile == [exists |-> FALSE, lines |-> <<>>, broken |-> FALSE]

VecFiles ==
  {NoFile} \cup
  {File(pre \o <<h>> \o body, brk) :
     pre \in {<<>>, <<(<<>>)>>}, h \in Headers,
     body \in SeqsUpTo(VecLines, MaxVecLines), brk \in BOOLEAN} \cup
  {File(<<>>, FALSE)}

SeedFiles ==
  {NoFile} \cup
  {File(body, brk) : body \in SeqsUpTo(SeedLines, MaxSeedLines), brk \in BOOLEAN}

MainVecFiles ==
  {NoFile, File(<<HdrBad>>, FALSE)} \cup
  {File(<<Hdr31>> \o body, FALSE) : body \in SeqsUpTo(MainVecLines, MainMaxVecLines)}

MainSeedFiles ==
  {NoFile, File(<<Str_b>>, FALSE), File(<<SL_a_pos, positive>>, FALSE)} \cup
  {File(body, FALSE) : body \in SeqsUpTo(MainSeedLines, MainMaxSeedLines)}

(***************************************************************************)
(* Options (vec2dic.cpp:27-47).                                            *)
(***************************************************************************)
ExpansionType ==
  {"NC_CLUSTERING", "KNN_CLUSTERING", "PCA_CLUSTERING", "PRJ_CLUSTERING",
   "LIN_TRANSFORM"}

DefaultOption ==
  [knn |-> 5, n_terms |-> 0 - 1, no_length_normalize |-> FALSE,
   no_mean_normalize |-> FALSE, etype |-> "NC_CLUSTERING"]

\* the option sets the command lines of the model resolve to
Options ==
  {DefaultOption,
   [DefaultOption EXCEPT !.n_terms = 1, !.etype = "KNN_CLUSTERING",
                         !.no_length_normalize = TRUE],
   [DefaultOption EXCEPT !.etype = "PCA_CLUSTERING", !.no_mean_normalize = TRUE]}

\* argc - argused
NArgs == {1, 2, 3}

EXIT_SUCCESS == 0

EXIT_FAILURE == 1

(***************************************************************************)
(* State.                                                                  *)
(***************************************************************************)
VARIABLES
  pc,          \* position of the process in main() and its callees
  opt,         \* Option opt
  nargs,       \* main()'s nargs, 0 until it is assigned
  vecFile,     \* the file argv names as VECTOR_FILE
  seedFile,    \* the file argv names as SEED_FILE
  vpos,        \* lines of vecFile consumed by getline()
  spos,        \* lines of seedFile consumed by getline()
  vfail,       \* the last getline() on vecFile failed
  sfail,       \* the last getline() on seedFile failed
  mrows, ncolumns, icol, irow,    \* locals of read_vectors()
  word2vecid, vecid2word, NWE, word2pol,   \* the file-scope statics
  vecid2pol,   \* main()'s id-keyed labeling
  rv,          \* <<value returned by read_vectors()>>, <<>> before it returns
  rs,          \* <<value returned by read_seed_set()>>, <<>> before it returns
  expanded,    \* the expansion call of main() has returned
  ret,         \* main()'s ret
  stdout,      \* the lines written to std::cout, each <<word, label name>>
  exit         \* <<exit status>>, <<>> while running or when killed by a signal

vars ==
  <<pc, opt, nargs, vecFile, seedFile, vpos, spos, vfail, sfail, mrows, ncolumns, icol,
    irow, word2vecid, vecid2word, NWE, word2pol, vecid2pol, rv, rs, expanded,
    ret, stdout, exit>>

EmptyMatrix == [n_rows |-> 0, n_cols |-> 0, cells |-> EmptyMap, normalized |-> {}]

\* NWE.set_size(mrows, ncolumns): the shape is set, the cells hold nothing yet
set_size(r, c) == [n_rows |-> r, n_cols |-> c, cells |-> EmptyMap, normalized |-> {}]

\* NWE(irow, icol) = iwght for the values of one line
RECURSIVE StoreColumn(_, _, _, _)
StoreColumn(m, col, vals, r) ==
  IF r >= Len(vals) THEN m
  ELSE StoreColumn([m EXCEPT !.cells = assign(m.cells, <<r, col>>, vals[r + 1])],
                   col, vals, r + 1)

\* _length_normalize() and _mean_normalize(): the passes applied are
\* recorded, the cell values are kept as parsed
Normalized(m, o) ==
  [m EXCEPT !.normalized =
     (IF o.no_length_normalize THEN {} ELSE {"length"}) \cup
     (IF o.no_mean_normalize THEN {} ELSE {"mean"})]

StaticsInit ==
  /\ word2vecid = EmptyMap
  /\ vecid2word = EmptyMap
  /\ NWE = EmptyMatrix
  /\ word2pol = EmptyMap
  /\ vecid2pol = EmptyMap
  /\ vpos = 0 /\ spos = 0 /\ vfail = FALSE /\ sfail = FALSE
  /\ mrows = 0 /\ ncolumns = 0 /\ icol = 0 /\ irow = 0
  /\ rv = <<>> /\ rs = <<>> /\ expanded = FALSE
  /\ ret = EXIT_SUCCESS
  /\ stdout = <<>>
  /\ exit = <<>>

\* the whole program, started by main()
Init ==
  /\ pc = "main"
  /\ opt = DefaultOption
  /\ nargs = 0
  /\ vecFile \in MainVecFiles
  /\ seedFile \in MainSeedFiles
  /\ StaticsInit

\* read_vectors() alone, applied to a file
InitVectors ==
  /\ pc = "rv_open"
  /\ opt \in Options
  /\ nargs = 2
  /\ vecFile \in VecFiles
  /\ seedFile = NoFile
  /\ StaticsInit

\* read_seed_set() alone, applied to a file
InitSeeds ==
  /\ pc = "rs_open"
  /\ opt = DefaultOption
  /\ nargs = 2
  /\ vecFile = NoFile
  /\ seedFile \in SeedFiles
  /\ StaticsInit

(***************************************************************************)
(* read_vectors() (vec2dic.cpp:287-365).                                   *)
(***************************************************************************)
VecUnchanged ==
  UNCHANGED <<opt, nargs, vecFile, seedFile, spos, sfail, word2pol, vecid2pol, rs,
              expanded, stdout, exit>>

\* error_exit: of read_vectors()
VecErrorExit ==
  /\ word2vecid' = EmptyMap
  /\ vecid2word' = EmptyMap
  /\ NWE' = EmptyMatrix
  /\ rv' = <<1>>
  /\ ret' = 1
  /\ pc' = "rv_ret"

\* std::ifstream is(a_fname); if (! is) goto error_exit
ReadVectorsOpen ==
  /\ pc = "rv_open"
  /\ IF vecFile.exists
       THEN /\ pc' = "rv_header"
            /\ UNCHANGED <<word2vecid, vecid2word, NWE, rv, ret>>
       ELSE VecErrorExit
  /\ UNCHANGED <<vpos, vfail, mrows, ncolumns, icol, irow>>
  /\ VecUnchanged

\* while (std::getline(is, iline) && iline.empty()) {}: the number of lines
\* consumed; the line after the empty ones is consumed too when there is one
RECURSIVE SkipEmpty(_, _)
SkipEmpty(ls, p) ==
  IF p >= Len(ls) THEN p
  ELSE IF ls[p + 1] = <<>> THEN SkipEmpty(ls, p + 1)
  ELSE p + 1

\* the declaration line, lines 303-312
ReadVectorsHeader ==
  /\ pc = "rv_header"
  /\ LET p     == SkipEmpty(vecFile.lines, vpos)
         found == p > 0 /\ vecFile.lines[p] # <<>>
         iline == IF found THEN vecFile.lines[p] ELSE <<>>
         h     == ScanHeader(iline)
     IN  /\ vpos' = p
         /\ vfail' = ~found
         /\ IF h.n # 2
              THEN /\ VecErrorExit
                   /\ UNCHANGED <<mrows, ncolumns>>
              ELSE /\ ncolumns' = h.ncolumns
                   /\ mrows' = h.mrows
                   /\ NWE' = set_size(h.mrows, h.ncolumns)
                   /\ pc' = "rv_loop"
                   /\ UNCHANGED <<word2vecid, vecid2word, rv, ret>>
  /\ UNCHANGED <<icol, irow>>
  /\ VecUnchanged

\* one pass of the loop of lines 314-336 over a line that getline() yields
ReadVectorsLine ==
  /\ pc = "rv_loop"
  /\ icol < ncolumns
  /\ vpos < Len(vecFile.lines)
  /\ \E oob \in OobBlanks :
       LET iline == vecFile.lines[vpos + 1]
           r     == ParseVectorLine(iline, mrows, oob)
       IN  /\ vpos' = vpos + 1
           /\ IF r.status = "missing_word"
                THEN /\ VecErrorExit
                     /\ UNCHANGED <<icol, irow>>
              ELSE IF r.status = "short_vector"
                THEN /\ VecErrorExit
                     /\ irow' = Len(r.values)
                     /\ UNCHANGED icol
              ELSE /\ word2vecid' = emplace(word2vecid, r.word, icol)
                   /\ vecid2word' = emplace(vecid2word, icol, r.word)
                   /\ NWE' = StoreColumn(NWE, icol, r.values, 0)
                   /\ irow' = Len(r.values)
                   /\ icol' = icol + 1
                   /\ UNCHANGED <<pc, rv, ret>>
  /\ UNCHANGED <<vfail, mrows, ncolumns>>
  /\ VecUnchanged

\* the loop ends (all columns read, or getline() fails); lines 338-357
ReadVectorsFinish ==
  /\ pc = "rv_loop"
  /\ icol >= ncolumns \/ vpos >= Len(vecFile.lines)
  /\ LET failed == icol < ncolumns
         eof    == failed /\ ~vecFile.broken
     IN  /\ vfail' = failed
         /\ IF ~eof /\ failed
              THEN VecErrorExit
            ELSE IF irow # mrows
              THEN VecErrorExit
            ELSE /\ NWE' = Normalized(NWE, opt)
                 /\ rv' = <<0>>
                 /\ ret' = 0
                 /\ pc' = "rv_ret"
                 /\ UNCHANGED <<word2vecid, vecid2word>>
  /\ UNCHANGED <<vpos, mrows, ncolumns, icol, irow>>
  /\ VecUnchanged

NextVectors ==
  \/ ReadVectorsOpen
  \/ ReadVectorsHeader
  \/ ReadVectorsLine
  \/ ReadVectorsFinish

SpecVectors == InitVectors /\ [][NextVectors]_vars

(***************************************************************************)
(* read_seed_set() (vec2dic.cpp:374-436).                                  *)
(***************************************************************************)
SeedUnchanged ==
  UNCHANGED <<opt, nargs, vecFile, seedFile, vpos, vfail, mrows, ncolumns, icol, irow,
              word2vecid, vecid2word, NWE, vecid2pol, rv, expanded, stdout, exit>>

\* error_exit: of read_seed_set()
SeedErrorExit ==
  /\ word2pol' = EmptyMap
  /\ rs' = <<1>>
  /\ ret' = 1
  /\ pc' = "rs_ret"

\* std::ifstream is(a_fname); if (! is) goto error_exit
ReadSeedOpen ==
  /\ pc = "rs_open"
  /\ IF seedFile.exists
       THEN /\ pc' = "rs_loop"
            /\ UNCHANGED <<word2pol, rs, ret>>
       ELSE SeedErrorExit
  /\ UNCHANGED <<spos, sfail>>
  /\ SeedUnchanged

\* one pass of the loop of lines 388-422 over a line that getline() yields
ReadSeedLine ==
  /\ pc = "rs_loop"
  /\ spos < Len(seedFile.lines)
  /\ \E oob \in OobBlanks :
       LET iline == seedFile.lines[spos + 1]
           r     == ParseSeedLine(iline, oob)
       IN  /\ spos' = spos + 1
           /\ IF iline = <<>>
                THEN UNCHANGED <<pc, word2pol, rs, ret>>
              ELSE IF r.status # "ok"
                THEN SeedErrorExit
              ELSE /\ word2pol' = emplace(word2pol, r.word, r.pol)
                   /\ UNCHANGED <<pc, rs, ret>>
  /\ UNCHANGED sfail
  /\ SeedUnchanged

\* getline() fails and the loop ends; lines 424-430
ReadSeedFinish ==
  /\ pc = "rs_loop"
  /\ spos >= Len(seedFile.lines)
  /\ sfail' = TRUE
  /\ IF seedFile.broken
       THEN SeedErrorExit
       ELSE /\ rs' = <<0>>
            /\ ret' = 0
            /\ pc' = "rs_ret"
            /\ UNCHANGED word2pol
  /\ UNCHANGED spos
  /\ SeedUnchanged

NextSeeds ==
  \/ ReadSeedOpen
  \/ ReadSeedLine
  \/ ReadSeedFinish

SpecSeeds == InitSeeds /\ [][NextSeeds]_vars

(***************************************************************************)
(* main() (vec2dic.cpp:441-497) and output_terms() (vec2dic.cpp:154-194).  *)
(***************************************************************************)
\* a loop `for (auto &e: container) m.emplace(key(e), value(e))` visits an
\* unordered container in an unspecified order: the maps it can leave,
\* `pairs` being the <<key, value>> of the entries visited
RECURSIVE EmplaceAll(_, _)
EmplaceAll(m, pairs) ==
  IF pairs = {} THEN {m}
  ELSE UNION {EmplaceAll(emplace(m, p[1], p[2]), pairs \ {p}) : p \in pairs}

\* a faulty UsageStatus: the status usage() takes by default (line 37)
UsageStatusOfHelp == EXIT_SUCCESS

\* std::exit(EXIT_FAILURE) of line 454
UsageStatus == EXIT_FAILURE

\* a faulty LoaderFailed: the caller ignores the failure indication
LoaderFailedNever(r) == r < 0

\* if ((ret = read_...(...))) return ret;
LoaderFailed(r) == r # 0

\* lines 448-455: the options, -h among them (usage() ends the process
\* with its default status), and the count of positional arguments
MainParseArgs ==
  /\ pc = "main"
  /\ \E o \in Options, n \in NArgs, help \in BOOLEAN :
       IF help
         THEN /\ exit' = <<EXIT_SUCCESS>>
              /\ pc' = "done"
              /\ UNCHANGED <<opt, nargs>>
       ELSE /\ opt' = o
            /\ nargs' = n
            /\ IF n # 2
                 THEN /\ exit' = <<UsageStatus>>
                      /\ pc' = "done"
                 ELSE /\ pc' = "rv_open"
                      /\ UNCHANGED exit
  /\ UNCHANGED <<vecFile, seedFile, vpos, spos, vfail, sfail, mrows, ncolumns,
                 icol, irow, word2vecid, vecid2word, NWE, word2pol, vecid2pol,
                 rv, rs, expanded, ret, stdout>>

\* lines 457-458
MainAfterVectors ==
  /\ pc = "rv_ret"
  /\ IF LoaderFailed(ret)
       THEN /\ exit' = <<ret>>
            /\ pc' = "done"
       ELSE /\ pc' = "rs_open"
            /\ UNCHANGED exit
  /\ UNCHANGED <<opt, nargs, vecFile, seedFile, vpos, spos, vfail, sfail, mrows,
                 ncolumns, icol, irow, word2vecid, vecid2word, NWE, word2pol,
                 vecid2pol, rv, rs, expanded, ret, stdout>>

\* lines 461-462
MainAfterSeeds ==
  /\ pc = "rs_ret"
  /\ IF LoaderFailed(ret)
       THEN /\ exit' = <<ret>>
            /\ pc' = "done"
       ELSE /\ pc' = "project"
            /\ UNCHANGED exit
  /\ UNCHANGED <<opt, nargs, vecFile, seedFile, vpos, spos, vfail, sfail, mrows,
                 ncolumns, icol, irow, word2vecid, vecid2word, NWE, word2pol,
                 vecid2pol, rv, rs, expanded, ret, stdout>>

\* the entries lines 468-472 offer to vecid2pol
SeedProjection(w2p, w2v) ==
  {<<w2v[w], w2p[w]>> : w \in DOMAIN w2p \cap DOMAIN w2v}

\* lines 466-472
MainProject ==
  /\ pc = "project"
  /\ vecid2pol' \in EmplaceAll(EmptyMap, SeedProjection(word2pol, word2vecid))
  /\ pc' = "expand"
  /\ UNCHANGED <<opt, nargs, vecFile, seedFile, vpos, spos, vfail, sfail, mrows,
                 ncolumns, icol, irow, word2vecid, vecid2word, NWE, word2pol,
                 rv, rs, expanded, ret, stdout, exit>>

\* The expansion functions of expansion.h.  Each extends the labeling with
\* labels for column ids of the matrix that have none, at most n_terms of
\* them when n_terms >= 0 and all of them when n_terms is -1, and changes no
\* label that is present.
Unlabeled(v2p, nwe) == (0..(nwe.n_cols - 1)) \ DOMAIN v2p

ExpandResults(v2p, nwe, n_terms) ==
  {v2p @@ f :
     f \in UNION {[S -> Polarity] :
                    S \in {T \in SUBSET Unlabeled(v2p, nwe) :
                             IF n_terms < 0 THEN T = Unlabeled(v2p, nwe)
                             ELSE Cardinality(T) <= n_terms}}}

\* an expansion fails when fewer than two classes are labeled
ExpandMustFail(v2p) == Cardinality({v2p[i] : i \in DOMAIN v2p}) < 2

\* a reduction strategy fails too when the matrix has fewer rows than the
\* components it asks for, a number this file does not hold
ExpandMayFail(v2p, o) ==
  ExpandMustFail(v2p) \/ o.etype \in {"PCA_CLUSTERING", "PRJ_CLUSTERING"}

\* lines 475-493
MainExpand ==
  /\ pc = "expand"
  /\ \/ /\ ExpandMayFail(vecid2pol, opt)
        /\ pc' = "aborted"
        /\ UNCHANGED <<vecid2pol, expanded>>
     \/ /\ ~ExpandMustFail(vecid2pol)
        /\ vecid2pol' \in ExpandResults(vecid2pol, NWE, opt.n_terms)
        /\ expanded' = TRUE
        /\ pc' = "output"
  /\ UNCHANGED <<opt, nargs, vecFile, seedFile, vpos, spos, vfail, sfail, mrows,
                 ncolumns, icol, irow, word2vecid, vecid2word, NWE, word2pol,
                 rv, rs, ret, stdout, exit>>

\* a faulty WpLess: the comparison is turned round
WpLessReversed(wp1, wp2) == strcmp(wp1[1], wp2[1]) > 0

\* the lambda of lines 173-174
WpLess(wp1, wp2) == strcmp(wp1[1], wp2[1]) < 0

\* std::sort(wpv.begin(), wpv.end(), less), by insertion
RECURSIVE InsertSorted(_, _)
InsertSorted(sorted, wp) ==
  IF sorted = <<>> THEN <<wp>>
  ELSE IF WpLess(wp, Head(sorted)) THEN <<wp>> \o sorted
  ELSE <<Head(sorted)>> \o InsertSorted(Tail(sorted), wp)

RECURSIVE SortAll(_, _)
SortAll(sorted, rest) ==
  IF rest = {} THEN sorted
  ELSE LET wp == CHOOSE e \in rest : TRUE
       IN  SortAll(InsertSorted(sorted, wp), rest \ {wp})

\* lines 166-193: the vector of (word, polarity), sorted, and the lines
\* `word<TAB>name<endl>` written for it
OutputLines(w2p) ==
  LET wpv == SortAll(<<>>, {<<w, w2p[w]>> : w \in DOMAIN w2p})
  IN  [i \in 1..Len(wpv) |-> <<wpv[i][1], PolarityName(wpv[i][2])>>]

\* what `v2w_it->second` can read when find() returned end()
GarbageWords == {<<>>, <<"0">>}

\* lines 160-164: the entries offered to word2pol; an id that vecid2word
\* does not hold is resolved through the end() iterator, to `garbage`
MergeEntries(v2p, v2w, garbage) ==
  {<<(IF i \in DOMAIN v2w THEN v2w[i] ELSE garbage), v2p[i]>> : i \in DOMAIN v2p}

\* output_terms(std::cout, &vecid2pol); return ret;
OutputTerms ==
  /\ pc = "output"
  /\ \/ /\ \E garbage \in GarbageWords :
             \E merged \in
                 EmplaceAll(word2pol, MergeEntries(vecid2pol, vecid2word, garbage)) :
               /\ word2pol' = merged
               /\ stdout' = OutputLines(merged)
        /\ exit' = <<ret>>
        /\ pc' = "done"
     \/ \* the read through end() faults
        /\ ~(DOMAIN vecid2pol \subseteq DOMAIN vecid2word)
        /\ pc' = "killed"
        /\ UNCHANGED <<word2pol, stdout, exit>>
  /\ UNCHANGED <<opt, nargs, vecFile, seedFile, vpos, spos, vfail, sfail, mrows,
                 ncolumns, icol, irow, word2vecid, vecid2word, NWE, vecid2pol,
                 rv, rs, expanded, ret>>

Next ==
  \/ MainParseArgs
  \/ ReadVectorsOpen
  \/ ReadVectorsHeader
  \/ ReadVectorsLine
  \/ ReadVectorsFinish
  \/ MainAfterVectors
  \/ ReadSeedOpen
  \/ ReadSeedLine
  \/ ReadSeedFinish
  \/ MainAfterSeeds
  \/ MainProject
  \/ MainExpand
  \/ OutputTerms

Spec == Init /\ [][Next]_vars

(***************************************************************************)
(* Properties.                                                             *)
(***************************************************************************)
Range(q) == {q[i] : i \in 1..Len(q)}

\* byte-wise lexicographic order of two words, strict
ByteLess(a, b) ==
  \E k \in 0..Min(Len(a), Len(b)) :
    /\ \A j \in 1..k : a[j] = b[j]
    /\ \/ k = Len(a) /\ k < Len(b)
       \/ k < Len(a) /\ k < Len(b) /\ Byte[a[k + 1]] < Byte[b[k + 1]]

\* the lines of the seed file that read_seed_set() has consumed
SeedLinesRead == {i \in 1..spos : TRUE}

\* a consumed line that is not blank and, once trimmed, holds no tab
NoTabLine(i) ==
  /\ normalize(seedFile.lines[i]) # <<>>
  /\ find_first_of(normalize(seedFile.lines[i]), "\t") = npos

\* a consumed line of the form word<TAB>label: its parse does not depend on
\* memory outside the line
TabLine(i) ==
  /\ find_first_of(normalize(seedFile.lines[i]), "\t") # npos
  /\ ParseSeedLine(seedFile.lines[i], 0).status = "ok"

WordOf(i) == ParseSeedLine(seedFile.lines[i], 0).word

LabelOf(i) == ParseSeedLine(seedFile.lines[i], 0).pol

\* lines i < j of the file give the same word different labels
Relabelled(i, j) ==
  /\ i < j /\ TabLine(i) /\ TabLine(j)
  /\ WordOf(i) = WordOf(j) /\ LabelOf(i) # LabelOf(j)

SeedLoaded == pc = "rs_ret" /\ rs = <<0>>

VectorsLoaded == pc = "rv_ret" /\ rv = <<0>>

\* C1: read_vectors() returns non-zero whenever the file ends after fewer
\* well-formed vector lines than the header declares, and never reports
\* success with a vocabulary smaller than the declared column count.
C1_ShortFileRejected ==
  /\ (pc = "rv_ret" /\ vfail /\ ~vecFile.broken /\ icol < ncolumns) => rv # <<0>>
  /\ VectorsLoaded => Cardinality(DOMAIN vecid2word) = ncolumns

\* C2 as claimed: after a successful load a word that several lines label
\* differently holds the label of its last occurrence in the file.
C2_LastWriteWins ==
  SeedLoaded =>
    \A j \in SeedLinesRead :
      (TabLine(j) /\ ~\E k \in SeedLinesRead : k > j /\ TabLine(k) /\ WordOf(k) = WordOf(j))
        => (WordOf(j) \in DOMAIN word2pol /\ word2pol[WordOf(j)] = LabelOf(j))

\* C2 as amended: read_seed_set() is first-write-wins; a line of a load that
\* goes on never changes the label a word already has, it only adds words.
C2_FirstWriteWins ==
  [][(pc = "rs_loop" /\ pc' = "rs_loop") =>
       \A w \in DOMAIN word2pol :
         w \in DOMAIN word2pol' /\ word2pol'[w] = word2pol[w]]_vars

\* a successful load of a file that labels one word twice, differently: the
\* word holds the label of the first of the two lines
C2_Witness ==
  /\ SeedLoaded
  /\ \E i \in SeedLinesRead, j \in SeedLinesRead :
       /\ Relabelled(i, j)
       /\ ~\E k \in SeedLinesRead : k < i /\ TabLine(k) /\ WordOf(k) = WordOf(i)
       /\ word2pol[WordOf(i)] = LabelOf(i)

\* C3: every non-blank seed line without a tab (after the initial trim)
\* makes read_seed_set() fail.
C3_NoTabRejected ==
  (pc = "rs_ret" /\ \E i \in SeedLinesRead : NoTabLine(i)) => rs # <<0>>

\* the three failure classes of main(), once the process has ended
UsageError == pc = "done" /\ nargs \in NArgs \ {2}

VectorError == pc = "done" /\ rv # <<>> /\ rv # <<0>>

SeedError == pc = "done" /\ rs # <<>> /\ rs # <<0>>

\* C4 as claimed: the codes of the three failure classes are non-zero and
\* pairwise different; a malformed header does not give the usage status.
C4_DistinctStatus ==
  /\ VectorError => (exit # <<EXIT_SUCCESS>> /\ exit # <<UsageStatus>>)
  /\ SeedError => (exit # <<EXIT_SUCCESS>> /\ exit # <<UsageStatus>>)

\* C4 as amended: each failure class ends the process with a non-zero
\* status, and it is the same status, 1, for the three of them.
C4_OneFailureStatus ==
  (UsageError \/ VectorError \/ SeedError) =>
    (exit # <<>> /\ exit[1] # EXIT_SUCCESS /\ exit = <<EXIT_FAILURE>>)

\* a run that ended on a malformed or missing embedding file
C4_Witness == VectorError /\ exit = <<EXIT_FAILURE>> /\ vecFile.exists

\* C5: after a successful read_vectors() that consumed every declared
\* column, word2vecid and vecid2word are mutual inverses over [0, n).
C5_Bijection ==
  (VectorsLoaded /\ icol = ncolumns) =>
    /\ DOMAIN vecid2word = 0..(ncolumns - 1)
    /\ Cardinality(DOMAIN word2vecid) = ncolumns
    /\ \A i \in DOMAIN vecid2word :
         vecid2word[i] \in DOMAIN word2vecid /\ word2vecid[vecid2word[i]] = i
    /\ \A w \in DOMAIN word2vecid :
         word2vecid[w] \in DOMAIN vecid2word /\ vecid2word[word2vecid[w]] = w

\* the label name a word is printed with, as a set (one line per word)
PrintedLabels(out, w) == {ln[2] : ln \in {l \in Range(out) : l[1] = w}}

\* C6: output_terms() prints every word of the seed mapping with exactly
\* the label the seed mapping holds for it.
C6_SeedLabelsKept ==
  [][(pc = "output" /\ pc' = "done") =>
       \A w \in DOMAIN word2pol :
         PrintedLabels(stdout', w) = {PolarityName(word2pol[w])}]_vars

\* the output of a run in which the labeling holds, for an id of a seed
\* word, a label other than the one printed for the word
C6_Witness ==
  /\ pc = "done" /\ stdout # <<>>
  /\ \E id \in DOMAIN vecid2pol \cap DOMAIN vecid2word :
       /\ \E i \in SeedLinesRead : TabLine(i) /\ WordOf(i) = vecid2word[id]
       /\ PolarityName(vecid2pol[id]) \notin PrintedLabels(stdout, vecid2word[id])

\* C7: nothing is written to stdout before read_vectors() and
\* read_seed_set() have succeeded and the expansion has returned; after a
\* usage error or a loader failure no later stage runs.
C7_NoPartialOutput ==
  /\ stdout # <<>> => (rv = <<0>> /\ rs = <<0>> /\ expanded)
  /\ (rs # <<>> \/ spos > 0 \/ sfail) => rv = <<0>>
  /\ (expanded \/ vecid2pol # EmptyMap \/ pc \in {"project", "expand", "output"})
       => (rv = <<0>> /\ rs = <<0>>)
  /\ (UsageError \/ VectorError \/ SeedError) => (stdout = <<>> /\ ~expanded)
  /\ (pc = "done" /\ nargs # 2) => (rv = <<>> /\ vpos = 0 /\ ~vfail /\ stdout = <<>>)

\* a finished run that wrote lines
C7_Witness == pc = "done" /\ Len(stdout) >= 2 /\ rv = <<0>> /\ rs = <<0>> /\ expanded

\* C8: the lines written are in strictly ascending byte order of their
\* words, so no word is on two lines.
C8_SortedOutput ==
  /\ \A i \in 1..(Len(stdout) - 1) : ByteLess(stdout[i][1], stdout[i + 1][1])
  /\ \A i \in 1..Len(stdout), j \in 1..Len(stdout) :
       stdout[i][1] = stdout[j][1] => i = j

\* an output of several lines for a labeling in which two ids, labeled
\* differently, have one word
C8_Witness ==
  /\ pc = "done" /\ Len(stdout) >= 2
  /\ \E i \in DOMAIN vecid2pol, j \in DOMAIN vecid2pol :
       /\ i # j /\ i \in DOMAIN vecid2word /\ j \in DOMAIN vecid2word
       /\ vecid2word[i] = vecid2word[j] /\ vecid2pol[i] # vecid2pol[j]

\* C9: an id of the labeling without a word ends output_terms() in an
\* error before any line is printed; and after two successful loads every
\* column index of the matrix has a word.
C9_IdsResolve ==
  /\ (pc = "done" /\ expanded /\ ~(DOMAIN vecid2pol \subseteq DOMAIN vecid2word))
       => (stdout = <<>> /\ exit # <<EXIT_SUCCESS>>)
  /\ (rv = <<0>> /\ rs = <<0>>) => (0..(NWE.n_cols - 1)) \subseteq DOMAIN vecid2word

\* C10: the words printed are exactly the words of the seed mapping and the
\* words of the ids of the final labeling.
C10_PrintedWords ==
  [][(pc = "output" /\ pc' = "done") =>
       {ln[1] : ln \in Range(stdout')} =
         DOMAIN word2pol \cup
         {vecid2word[i] : i \in DOMAIN vecid2pol \cap DOMAIN vecid2word}]_vars

====
